---- MODULE Spec2Model ----
(***************************************************************************)
(* har2requests: inference of the origin of request headers.               *)
(*                                                                         *)
(* Python strings are modelled as sequences of code points (naturals);     *)
(* chr(0) is the code point 0.  Python lists are TLA+ sequences; the       *)
(* 0-based index i of the source is the 1-based index i + 1 here.          *)
(***************************************************************************)
EXTENDS Integers, Sequences, FiniteSets, TLC

VARIABLES
    call_fn,    \* name of the pure function under call ("none" when unused)
    call_args,  \* its arguments
    call_ret,   \* Pending before the call, then the value or the exception
    \* main
    requests,               \* the sorted list of Request
    pc,                     \* position of main
    run,                    \* 1 for the first run on requests, 2 for the second
    all_session_headers,    \* result of infer_session_headers
    current_session_headers,
    main_header_to_variable,\* header_to_variable of main
    render_id,              \* index of the output loop of main
    rendered,               \* what the output loop wrote, per request
    first_run,              \* snapshots and bindings of the first run
    \* infer_headers_origin
    base_headers,
    variables_to_bind,
    header_to_variable,
    variable_names,
    responses_db,
    tried_headers,
    request_id,             \* index of the loop over requests
    header_idx,             \* index of the loop over request.headers.items()
    scan_idx,               \* index of the loop over responses_db
    last_match,             \* the last call of match and what it returned
    attempts,               \* history: the (name, value) headers searched for
    \* _match_wrapped
    cache,                  \* the entries of lru_cache(50), least recent first
    \* suffix_array and kasai, step by step
    sa_pc,                  \* position in kasai(s) and its call of suffix_array
    sa_line,                \* line
    sa_k,                   \* k
    sa_ret,                 \* what suffix_array returned or raised
    \* infer_session_headers, step by step
    ish_pc,                 \* position in infer_session_headers
    ish_i,                  \* index of the loop under way
    ish_count,              \* count: .k is count[k], .kv is count[k, v]
    ish_record,             \* record
    heap,                   \* the dict objects, by identity
    ish_headers,            \* headers: the identity of the running dict
    ish_ans                 \* ans: the identities of the dicts appended

call_vars == <<call_fn, call_args, call_ret>>

main_vars == <<requests, pc, run, all_session_headers, current_session_headers,
               main_header_to_variable, render_id, rendered, first_run>>

infer_vars == <<base_headers, variables_to_bind, header_to_variable,
                variable_names, responses_db, tried_headers, request_id,
                header_idx, scan_idx, last_match, attempts>>

sa_vars == <<sa_pc, sa_line, sa_k, sa_ret>>

ish_vars == <<ish_pc, ish_i, ish_count, ish_record, heap, ish_headers, ish_ans>>

vars == <<call_vars, main_vars, infer_vars, cache, sa_vars, ish_vars>>

-----------------------------------------------------------------------------
(* Helpers for Python built-ins.                                           *)

\* max() of a non-empty collection of integers
SetMax(S) == CHOOSE x \in S : \A y \in S : y <= x

\* the elements of a list, as a set
Range(l) == {l[i] : i \in 1..Len(l)}

\* list indexing with a 0-based index
At(l, i) == l[i + 1]

\* a list comprehension, built once (element by element) as a list
List(f) == f \o <<>>

\* the outcome of a call: a returned value, or a raised exception
Return(v) == [ok |-> TRUE, val |-> v]
Raise(e) == [ok |-> FALSE, val |-> e]

\* a call that has not been made yet
Pending == [ok |-> FALSE, val |-> "pending"]

\* the exception max() raises on an empty sequence
ValueError == "ValueError"

-----------------------------------------------------------------------------
(* stringalg.py                                                            *)

\* to_int_keys: every key replaced by its rank among the distinct keys
to_int_keys(l) ==
    LET ls == Range(l)
    IN  List([i \in 1..Len(l) |-> Cardinality({x \in ls : x < l[i]})])

\* one round of the doubling loop: the keys a * (n + 1) + b + 1 over
\* zip_longest(line, islice(line, k, None), fillvalue=-1)
doubling_keys(line, k, n) ==
    List([i \in 1..n |->
        line[i] * (n + 1) + (IF i + k <= n THEN line[i + k] ELSE -1) + 1])

RECURSIVE suffix_array_loop(_, _, _)
suffix_array_loop(line, k, n) ==
    IF SetMax(Range(line)) < n - 1
    THEN suffix_array_loop(to_int_keys(doubling_keys(line, k, n)), 2 * k, n)
    ELSE line

\* suffix_array: max(line) raises ValueError on the empty sequence
suffix_array(s) ==
    IF Len(s) = 0
    THEN Raise(ValueError)
    ELSE Return(suffix_array_loop(to_int_keys(s), 1, Len(s)))

\* inverse_array: ans[l[i]] = i for i = 0 .. n-1 in turn, over [0] * n
inverse_array(l) ==
    List([r \in 1..Len(l) |->
        LET hits == {i \in 1..Len(l) : l[i] = r - 1}
        IN  IF hits = {} THEN 0 ELSE SetMax(hits) - 1])

\* the inner while loop of kasai: extend k while the symbols agree
RECURSIVE kasai_extend(_, _, _, _)
kasai_extend(s, i, j, k) ==
    IF i + k < Len(s) /\ j + k < Len(s) /\ At(s, i + k) = At(s, j + k)
    THEN kasai_extend(s, i, j, k + 1)
    ELSE k

\* the for loop of kasai, from index i on, with the running k and lcp
RECURSIVE kasai_loop(_, _, _, _, _, _)
kasai_loop(s, sa, pos, i, k, lcp) ==
    IF i >= Len(s) THEN lcp
    ELSE IF At(sa, i) = Len(s) - 1
         THEN kasai_loop(s, sa, pos, i + 1, 0, lcp)
         ELSE LET j  == At(pos, At(sa, i) + 1)
                  k2 == kasai_extend(s, i, j, k)
              IN  kasai_loop(s, sa, pos, i + 1,
                             IF k2 > 0 THEN k2 - 1 ELSE k2,
                             [lcp EXCEPT ![At(sa, i) + 1] = k2])

kasai(s, sa) ==
    kasai_loop(s, sa, inverse_array(sa), 0, 0, List([i \in 1..Len(s) |-> 0]))

\* the separator chr(0) put between the two operands
SEPARATOR == 0

\* lcs_candidates with the test that the two neighbours come from different
\* operands left out
lcs_candidates_all_neighbours(a, b) ==
    LET s   == a \o <<SEPARATOR>> \o b
        lcp == kasai(s, suffix_array(s).val)
    IN  {At(lcp, i) : i \in 0..(Len(s) - 2)}

\* the lcp values longest_common_substring takes the max of
lcs_candidates(a, b) ==
    LET s   == a \o <<SEPARATOR>> \o b
        sa  == suffix_array(s).val
        pos == inverse_array(sa)
        lcp == kasai(s, sa)
    IN  {At(lcp, i) : i \in {x \in 0..(Len(s) - 2) :
                (At(pos, x) < Len(a)) # (At(pos, x + 1) < Len(a))}}

\* longest_common_substring: max() raises ValueError on no candidate
longest_common_substring(a, b) ==
    LET c == lcs_candidates(a, b)
    IN  IF c = {} THEN Raise(ValueError) ELSE Return(SetMax(c))

-----------------------------------------------------------------------------
(* Calls of longest_common_substring on bounded strings.                   *)

\* longest operand
MaxLen == 3

\* code points of the operands; 0 is chr(0)
Alphabet == {0, 1, 2}

Strings(n) == UNION {[1..m -> Alphabet] : m \in 0..n}

\* no stepwise run of suffix_array or of infer_session_headers is under way
SAIdle ==
    /\ sa_pc = "idle"
    /\ sa_line = <<>>
    /\ sa_k = 0
    /\ sa_ret = Pending

SessionIdle ==
    /\ ish_pc = "idle"
    /\ ish_i = 0
    /\ ish_count = <<>>
    /\ ish_record = <<>>
    /\ heap = <<>>
    /\ ish_headers = 0
    /\ ish_ans = <<>>

\* main is not running
MainIdle ==
    /\ requests = <<>>
    /\ pc = "idle"
    /\ run = 0
    /\ all_session_headers = <<>>
    /\ current_session_headers = <<>>
    /\ main_header_to_variable = <<>>
    /\ render_id = 0
    /\ rendered = <<>>
    /\ first_run = <<>>
    /\ base_headers = <<>>
    /\ variables_to_bind = <<>>
    /\ header_to_variable = <<>>
    /\ variable_names = {}
    /\ responses_db = <<>>
    /\ tried_headers = {}
    /\ request_id = 0
    /\ header_idx = 0
    /\ scan_idx = 0
    /\ last_match = <<>>
    /\ attempts = <<>>
    /\ cache = <<>>

InitLCS ==
    /\ call_fn = "longest_common_substring"
    /\ call_args \in Strings(MaxLen) \X Strings(MaxLen)
    /\ call_ret = Pending
    /\ MainIdle
    /\ SAIdle
    /\ SessionIdle

CallLCS ==
    /\ call_fn = "longest_common_substring"
    /\ call_ret = Pending
    /\ call_ret' = longest_common_substring(call_args[1], call_args[2])
    /\ UNCHANGED <<call_fn, call_args, main_vars, infer_vars, cache, sa_vars,
                   ish_vars>>

NextLCS == CallLCS

SpecLCS == InitLCS /\ [][NextLCS]_vars

\* the call of longest_common_substring was made
LCSCalled == call_fn = "longest_common_substring" /\ call_ret # Pending

lcs_a == call_args[1]
lcs_b == call_args[2]

HasSeparator(x) == \E i \in 1..Len(x) : x[i] = SEPARATOR

Min(x, y) == IF x <= y THEN x ELSE y

\* the lengths of the contiguous substrings that occur in both x and y
CommonLengths(x, y) ==
    {n \in 0..Min(Len(x), Len(y)) :
        \E i \in 1..(Len(x) - n + 1) : \E j \in 1..(Len(y) - n + 1) :
            SubSeq(x, i, i + n - 1) = SubSeq(y, j, j + n - 1)}

\* C7: for non-empty a and b without chr(0), longest_common_substring(a, b)
\* returns the length of the longest contiguous substring common to a and b
\* (0 when they share no symbol).
C7_LcsIsLongestCommonSubstring ==
    (LCSCalled /\ lcs_a # <<>> /\ lcs_b # <<>>
        /\ ~HasSeparator(lcs_a) /\ ~HasSeparator(lcs_b))
    => call_ret = Return(SetMax(CommonLengths(lcs_a, lcs_b)))

\* C7 witness: a call on two different separator-free operands that share a
\* substring of length 2 which is not a prefix of both
C7_Witness ==
    /\ LCSCalled
    /\ lcs_a = <<1, 2, 1>> /\ lcs_b = <<2, 2, 1>>
    /\ call_ret = Return(2)

\* C8: with an empty operand longest_common_substring raises, and never
\* returns a number.
C8_EmptyOperandRaises ==
    (LCSCalled /\ (lcs_a = <<>> \/ lcs_b = <<>>)) => ~call_ret.ok

\* C9: whatever the operands contain, a returned value is at most
\* min(len(a), len(b)).
C9_LcsAtMostMinLen ==
    (LCSCalled /\ call_ret.ok) => call_ret.val <= Min(Len(lcs_a), Len(lcs_b))

\* C10: for non-empty a and b, longest_common_substring(a, b) equals
\* longest_common_substring(b, a), and longest_common_substring(a, a) = len(a).
C10_LcsSymmetricAndReflexive ==
    (LCSCalled /\ lcs_a # <<>> /\ lcs_b # <<>>)
    => /\ call_ret = longest_common_substring(lcs_b, lcs_a)
       /\ (lcs_a = lcs_b => call_ret = Return(Len(lcs_a)))

-----------------------------------------------------------------------------
(* kasai(s) with sa = None on bounded sequences: its call of suffix_array, *)
(* one round of the doubling loop at a time, then the lcp array.           *)

\* longest sequence
MaxSA == 4

\* the test of the while loop, stopping one rank early
loop_test_one_short(line, n) == SetMax(Range(line)) < n - 2

\* the test of the while loop: max(line) < n - 1
loop_test(line, n) == SetMax(Range(line)) < n - 1

\* the sequence s the call is made on
sa_s == call_args[1]

InitSA ==
    /\ call_fn = "kasai"
    /\ call_args \in {<<s>> : s \in Strings(MaxSA)}
    /\ call_ret = Pending
    /\ sa_pc = "start"
    /\ sa_line = <<>>
    /\ sa_k = 0
    /\ sa_ret = Pending
    /\ MainIdle
    /\ SessionIdle

\* suffix_array, lines 29-31: n, k and the first line
StartSA ==
    /\ sa_pc = "start"
    /\ sa_k' = 1
    /\ sa_line' = to_int_keys(sa_s)
    /\ sa_pc' = "loop"
    /\ UNCHANGED <<call_vars, sa_ret, main_vars, infer_vars, cache, ish_vars>>

\* line 32: max() of the empty line raises, and kasai lets it through
RaiseSA ==
    /\ sa_pc = "loop"
    /\ sa_line = <<>>
    /\ sa_ret' = Raise(ValueError)
    /\ call_ret' = Raise(ValueError)
    /\ sa_pc' = "done"
    /\ UNCHANGED <<call_fn, call_args, sa_line, sa_k, main_vars, infer_vars,
                   cache, ish_vars>>

\* lines 32-39: one round of the doubling loop
DoubleSA ==
    /\ sa_pc = "loop"
    /\ sa_line # <<>>
    /\ loop_test(sa_line, Len(sa_s))
    /\ sa_line' = to_int_keys(doubling_keys(sa_line, sa_k, Len(sa_s)))
    /\ sa_k' = 2 * sa_k
    /\ UNCHANGED <<call_vars, sa_pc, sa_ret, main_vars, infer_vars, cache,
                   ish_vars>>

\* lines 32 and 40: the loop is over, suffix_array returns line
ReturnSA ==
    /\ sa_pc = "loop"
    /\ sa_line # <<>>
    /\ ~loop_test(sa_line, Len(sa_s))
    /\ sa_ret' = Return(sa_line)
    /\ sa_pc' = "kasai"
    /\ UNCHANGED <<call_vars, sa_line, sa_k, main_vars, infer_vars, cache,
                   ish_vars>>

\* kasai, lines 62-77, on the array suffix_array returned
KasaiSA ==
    /\ sa_pc = "kasai"
    /\ call_ret' = Return(kasai(sa_s, sa_ret.val))
    /\ sa_pc' = "done"
    /\ UNCHANGED <<call_fn, call_args, sa_line, sa_k, sa_ret, main_vars,
                   infer_vars, cache, ish_vars>>

NextSA ==
    \/ StartSA
    \/ RaiseSA
    \/ DoubleSA
    \/ ReturnSA
    \/ KasaiSA

\* every step of the call is taken as long as one is possible
SpecSA == InitSA /\ [][NextSA]_vars /\ WF_vars(NextSA)

\* s[i:]
SuffixFrom(s, i) == SubSeq(s, i + 1, Len(s))

\* x <= y in the lexicographic order of Python sequences
LexLeq(x, y) ==
    \/ /\ Len(x) <= Len(y)
       /\ \A i \in 1..Len(x) : x[i] = y[i]
    \/ \E i \in 1..Min(Len(x), Len(y)) :
            /\ x[i] < y[i]
            /\ \A j \in 1..(i - 1) : x[j] = y[j]

\* l is a permutation of [0, n)
IsPermutation(l, n) == Len(l) = n /\ Range(l) = 0..(n - 1)

\* C11: for every sequence s of n >= 1 symbols the array sa that
\* suffix_array(s) returns is a permutation of [0, n) and the suffixes
\* s[sa[0]:], s[sa[1]:], ..., s[sa[n-1]:] are in non-decreasing
\* lexicographic order.
C11_SuffixesInOrder ==
    (sa_ret.ok /\ Len(sa_s) >= 1) =>
        /\ IsPermutation(sa_ret.val, Len(sa_s))
        /\ \A i \in 0..(Len(sa_s) - 2) :
                LexLeq(SuffixFrom(sa_s, At(sa_ret.val, i)),
                       SuffixFrom(sa_s, At(sa_ret.val, i + 1)))

\* C16: for every sequence of length n >= 1, single-symbol and fully
\* repeating ones included, the doubling loop of suffix_array comes to an end,
\* and when it has stopped the n ranks are all distinct: line is a permutation
\* of [0, n) and its maximum is n - 1.
C16_DoublingLoopEnds ==
    /\ (Len(sa_s) >= 1) ~> sa_ret.ok
    /\ [](sa_ret.ok =>
            /\ IsPermutation(sa_ret.val, Len(sa_s))
            /\ SetMax(Range(sa_ret.val)) = Len(sa_s) - 1)

\* C16 witness: the loop has stopped on a sequence of MaxSA equal symbols,
\* after more than one round
C16_Witness ==
    /\ sa_ret.ok
    /\ sa_s = [i \in 1..MaxSA |-> 1]
    /\ sa_k > 2
    /\ IsPermutation(sa_ret.val, MaxSA)

\* C17: on the empty sequence suffix_array and kasai raise nothing and return
\* empty arrays.
C17_EmptyGivesEmptyArrays ==
    (sa_pc = "done" /\ sa_s = <<>>) =>
        /\ sa_ret = Return(<<>>)
        /\ call_ret = Return(<<>>)

-----------------------------------------------------------------------------
(* Python dicts are functions from their keys; None is a value no string   *)
(* of the model is equal to.                                               *)

None == "None"

EmptyDict == [k \in {} |-> None]

\* a dict comprehension, built once (entry by entry) as a dict
Dict(f) == f @@ EmptyDict

\* d[key] = value
Put(d, key, value) ==
    [k \in DOMAIN d \cup {key} |-> IF k = key THEN value ELSE d[k]]

\* Counter: a missing key counts 0
count_get(c, key) == IF key \in DOMAIN c THEN c[key] ELSE 0

count_add(c, key, d) == Put(c, key, count_get(c, key) + d)

\* str(i) for i >= 0
DigitChars == <<"0", "1", "2", "3", "4", "5", "6", "7", "8", "9">>

RECURSIVE decimal(_)
decimal(i) ==
    IF i < 10 THEN DigitChars[i + 1]
    ELSE decimal(i \div 10) \o DigitChars[(i % 10) + 1]

-----------------------------------------------------------------------------
(* The strings of the requests.  A header value or a response text is held *)
(* in the state by a name; Chars gives its characters.  Different names    *)
(* have different characters, so equality of names is equality of strings. *)

Rep(c, n) == List([i \in 1..n |-> c])

\* responses longer than this are not searched
MAX_SIZE == 100000

\* number of header values of the request that fills the cache
NStress == 13

StressValues == {"K" \o decimal(j) : j \in 1..NStress}

StressIndex(name) == CHOOSE j \in 1..NStress : name = "K" \o decimal(j)

Chars ==
    [ V   |-> Rep(1, 16),
      W   |-> Rep(2, 16),
      U   |-> Rep(2, 12) \o Rep(4, 4),
      tok |-> Rep(5, 3),
      TA  |-> <<9, 9>> \o Rep(1, 16),
      TAB |-> Rep(1, 9) \o Rep(2, 16),
      TN  |-> Rep(3, 16),
      TE  |-> <<>>,
      TL  |-> Rep(3, MAX_SIZE + 1),
      E1  |-> Rep(21, 16) \o Rep(22, 9),
      E2  |-> Rep(6, 16),
      E3  |-> Rep(7, 16),
      E4  |-> Rep(8, 16),
      H15 |-> Rep(1, 15),
      H17 |-> Rep(1, 8) \o <<0>> \o Rep(2, 8),
      T7  |-> Rep(1, 7),
      T8  |-> Rep(1, 8),
      T9  |-> Rep(1, 9),
      T8y |-> Rep(2, 8) ]
    @@ [name \in StressValues |-> Rep(20 + StressIndex(name), 16)]

\* len(x)
StrLen(name) == Len(Chars[name])

-----------------------------------------------------------------------------
(* The request lists main is run on: up to MaxCore requests of a menu,     *)
(* with up to MaxFill requests without headers put in at one place, and    *)
(* one list whose last request has enough header values to fill the cache. *)

MaxCore == 3
MaxFill == 5

Request(headers, responseText) ==
    [headers |-> headers, responseText |-> responseText]

Menu ==
    << Request(<<>>, "TA"),
       Request(<< <<"X", "W">> >>, "TAB"),
       Request(<< <<"X", "V">>, <<"X_1", "W">> >>, "TN"),
       Request(<< <<"Y", "V">>, <<"Z", "tok">> >>, "TE"),
       Request(<< <<"X_1", "U">> >>, "TL") >>

Filler == Request(<<>>, "TN")

Cores == UNION {[1..m -> Range(Menu)] : m \in 0..MaxCore}

WithFill(core, at, n) ==
    SubSeq(core, 1, at) \o [i \in 1..n |-> Filler] \o SubSeq(core, at + 1, Len(core))

StressInput ==
    << Request(<<>>, "E1"), Request(<<>>, "E2"), Request(<<>>, "E3"),
       Request(<<>>, "E4"), Request(<<>>, "E1"),
       Request([j \in 1..NStress |-> <<"H" \o decimal(j), "K" \o decimal(j)>>], "TE") >>

Inputs ==
    {WithFill(core, at, 0) : core \in Cores, at \in {0}}
    \cup UNION {{WithFill(core, at, n) : at \in 0..Len(core), n \in 1..MaxFill} :
                    core \in Cores}
    \cup {StressInput}

-----------------------------------------------------------------------------
(* __init__.py: match and _match_wrapped                                   *)

RESPONSE_LOOKUP == 5

SIZE_THRESHOLD == 16

\* MATCH_FRACTION_THRESHOLD = 0.5, as the fraction 1 / 2
MATCH_FRACTION_NUM == 1
MATCH_FRACTION_DEN == 2

\* maxsize of lru_cache
LRU_MAXSIZE == 50

\* x / y < MATCH_FRACTION_THRESHOLD, for y > 0
BelowFraction(x, y) == x * MATCH_FRACTION_DEN < MATCH_FRACTION_NUM * y

\* x / y >= MATCH_FRACTION_THRESHOLD, for y > 0
AtLeastFraction(x, y) == x * MATCH_FRACTION_DEN >= MATCH_FRACTION_NUM * y

\* x / y > MATCH_FRACTION_THRESHOLD, for y > 0
AboveFraction(x, y) == x * MATCH_FRACTION_DEN > MATCH_FRACTION_NUM * y


\* the header values and the response texts of the request lists
HeaderValues ==
    UNION {{r.headers[j][2] : j \in 1..Len(r.headers)} :
                r \in Range(Menu) \cup {Filler} \cup Range(StressInput)}

ResponseTexts ==
    {r.responseText : r \in Range(Menu) \cup {Filler} \cup Range(StressInput)}

\* the headers and the texts match is called on by itself: around the three
\* tests of match and the threshold of _match_wrapped, the empty string
\* ("TE") and a header with chr(0) included
MatchHeaders == {"TE", "H15", "V", "H17"}

MatchTexts == {"TE", "T7", "T8", "T9", "T8y", "H15", "TN", "V"}

\* longest_common_substring on the strings that can reach it, computed once:
\* those of the request lists, and those match is called on by itself
LcsOnce ==
    Dict([p \in HeaderValues \X {t \in ResponseTexts : StrLen(t) <= MAX_SIZE} |->
            longest_common_substring(Chars[p[1]], Chars[p[2]])])

MatchLcsOnce ==
    Dict([p \in MatchHeaders \X MatchTexts |->
            longest_common_substring(Chars[p[1]], Chars[p[2]])])

\* longest_common_substring(header, text) of two named strings
lcs_of(header, text) ==
    IF <<header, text>> \in DOMAIN LcsOnce
    THEN LcsOnce[<<header, text>>]
    ELSE IF <<header, text>> \in MatchHeaders \X MatchTexts
    THEN MatchLcsOnce[<<header, text>>]
    ELSE longest_common_substring(Chars[header], Chars[text])

\* the exception a division by len(header) raises when header is empty
ZeroDivisionError == "ZeroDivisionError"

\* the body of _match_wrapped
match_wrapped_body(header, text) ==
    LET match_size == lcs_of(header, text)
    IN  IF ~match_size.ok THEN match_size
        ELSE IF StrLen(header) = 0 THEN Raise(ZeroDivisionError)
        ELSE Return(AboveFraction(match_size.val, StrLen(header)))

\* cache_index that looks the entry up by the header alone
cache_index_by_header(c, key) ==
    IF \E i \in 1..Len(c) : c[i].key[1] = key[1]
    THEN CHOOSE i \in 1..Len(c) : c[i].key[1] = key[1]
    ELSE 0

\* position in the cache of the entry of a key, 0 when it has none
cache_index(c, key) ==
    IF \E i \in 1..Len(c) : c[i].key = key
    THEN CHOOSE i \in 1..Len(c) : c[i].key = key
    ELSE 0

\* c without its i-th entry
cache_remove(c, i) == SubSeq(c, 1, i - 1) \o SubSeq(c, i + 1, Len(c))

\* _match_wrapped under lru_cache(50): a hit returns the stored result and
\* makes the entry the most recent; a miss runs the body, stores the result
\* and drops the least recent entry of a full cache
match_wrapped(c, header, text) ==
    LET key == <<header, text>>
        i   == cache_index(c, key)
    IN  IF i > 0
        THEN [ret |-> Return(c[i].val), cache |-> Append(cache_remove(c, i), c[i])]
        ELSE LET r == match_wrapped_body(header, text)
             IN  IF ~r.ok
                 THEN [ret |-> r, cache |-> c]
                 ELSE [ret |-> r,
                       cache |-> Append(IF Len(c) >= LRU_MAXSIZE THEN Tail(c) ELSE c,
                                        [key |-> key, val |-> r.val])]

\* match with the test of the fraction len(text) / len(header) made first
match_fraction_first(c, header, text) ==
    IF StrLen(header) = 0
    THEN [ret |-> Raise(ZeroDivisionError), cache |-> c]
    ELSE IF BelowFraction(StrLen(text), StrLen(header))
    THEN [ret |-> Return(FALSE), cache |-> c]
    ELSE IF StrLen(header) < SIZE_THRESHOLD
    THEN [ret |-> Return(FALSE), cache |-> c]
    ELSE IF StrLen(text) = 0
    THEN [ret |-> Return(FALSE), cache |-> c]
    ELSE match_wrapped(c, header, text)

\* match(header, text), from a cache c
match(c, header, text) ==
    IF StrLen(header) < SIZE_THRESHOLD
    THEN [ret |-> Return(FALSE), cache |-> c]
    ELSE IF StrLen(header) = 0
    THEN [ret |-> Raise(ZeroDivisionError), cache |-> c]
    ELSE IF BelowFraction(StrLen(text), StrLen(header))
    THEN [ret |-> Return(FALSE), cache |-> c]
    ELSE IF StrLen(text) = 0
    THEN [ret |-> Return(FALSE), cache |-> c]
    ELSE match_wrapped(c, header, text)

-----------------------------------------------------------------------------
(* Calls of match, one after the other in one process, so that the later   *)
(* ones find the cache of _match_wrapped filled by the earlier ones.       *)

\* calls are made while the cache holds fewer entries than this
MaxWarm == 3

InitMatch ==
    /\ call_fn = "match"
    /\ call_args \in MatchHeaders \X MatchTexts
    /\ call_ret = Pending
    /\ MainIdle
    /\ SAIdle
    /\ SessionIdle

\* match(header, text)
CallMatch ==
    /\ call_fn = "match"
    /\ call_ret = Pending
    /\ LET m == match(cache, call_args[1], call_args[2])
       IN  /\ call_ret' = m.ret
           /\ cache' = m.cache
    /\ UNCHANGED <<call_fn, call_args, main_vars, infer_vars, sa_vars, ish_vars>>

\* the caller goes on to its next call of match
AgainMatch ==
    /\ call_fn = "match"
    /\ call_ret # Pending
    /\ Len(cache) < MaxWarm
    /\ call_args' \in MatchHeaders \X MatchTexts
    /\ call_ret' = Pending
    /\ UNCHANGED <<call_fn, main_vars, infer_vars, cache, sa_vars, ish_vars>>

NextMatch ==
    \/ CallMatch
    \/ AgainMatch

SpecMatch == InitMatch /\ [][NextMatch]_vars

\* the call of match was made
MatchCalled == call_fn = "match" /\ call_ret # Pending

match_h == call_args[1]
match_t == call_args[2]

\* C12: match(h, t) is true exactly when len(h) >= 16, t is not empty,
\* 2 * len(t) >= len(h) and 2 * longest_common_substring(h, t) > len(h); it is
\* false whenever len(h) < 16.
C12_MatchExactlyWhen ==
    MatchCalled =>
        /\ call_ret = Return(/\ StrLen(match_h) >= 16
                             /\ StrLen(match_t) > 0
                             /\ 2 * StrLen(match_t) >= StrLen(match_h)
                             /\ 2 * lcs_of(match_h, match_t).val > StrLen(match_h))
        /\ StrLen(match_h) < 16 => call_ret = Return(FALSE)

\* C12 witness: from a cache with entries, match returns True on a header of
\* 16 symbols and a text of 9 that has 9 symbols in common with it
C12_Witness ==
    /\ MatchCalled
    /\ match_h = "V" /\ match_t = "T9"
    /\ lcs_of("V", "T9") = Return(9)
    /\ Len(cache) >= 2
    /\ call_ret = Return(TRUE)

\* C19: for all h and t, the empty ones included, match returns a boolean and
\* raises nothing: no division by zero, although the fraction is tested before
\* the text is tested for emptiness, and longest_common_substring is only
\* reached with two non-empty operands.
C19_MatchNeverRaises ==
    /\ MatchCalled => (call_ret.ok /\ call_ret.val \in BOOLEAN)
    /\ \A i \in 1..Len(cache) :
            StrLen(cache[i].key[1]) > 0 /\ StrLen(cache[i].key[2]) > 0

\* C19 witness: a call on an empty header and an empty text has returned
\* False, after a call that went as far as longest_common_substring
C19_Witness ==
    /\ MatchCalled
    /\ StrLen(match_h) = 0 /\ StrLen(match_t) = 0
    /\ call_ret = Return(FALSE)
    /\ cache # <<>>

-----------------------------------------------------------------------------
(* __init__.py: new_variable_name                                          *)

\* f"{base_name}_{i}"
variable_name(base_name, i) == base_name \o "_" \o decimal(i)

\* new_variable_name without its while loop
first_unused_no_loop(names, base_name, i) == i

\* the while loop of new_variable_name: the first i whose name is unused
RECURSIVE first_unused(_, _, _)
first_unused(names, base_name, i) ==
    IF variable_name(base_name, i) \in names
    THEN first_unused(names, base_name, i + 1)
    ELSE i

new_variable_name(names, base_name) ==
    variable_name(base_name, first_unused(names, base_name, 1))

-----------------------------------------------------------------------------
(* __init__.py: infer_session_headers.  A request is a record with its     *)
(* headers (the items of the dict, in order) and its responseText.         *)

header_keys(r) == {r.headers[j][1] : j \in 1..Len(r.headers)}

\* r.headers as a dict
headers_dict(r) ==
    [k \in header_keys(r) |->
        r.headers[CHOOSE j \in 1..Len(r.headers) : r.headers[j][1] = k][2]]

\* the inner loop of the backward pass, recording every header it counts
record_headers_every(hs, j, count, rec) ==
    LET keys  == {hs[x][1] : x \in j..Len(hs)}
        pairs == {<<hs[x][1], hs[x][2]>> : x \in j..Len(hs)}
    IN  [count |-> [k  |-> Dict([k \in DOMAIN count.k \cup keys |->
                                count_get(count.k, k) + (IF k \in keys THEN 1 ELSE 0)]),
                    kv |-> Dict([p \in DOMAIN count.kv \cup pairs |->
                                count_get(count.kv, p) + (IF p \in pairs THEN 1 ELSE 0)])],
         rec   |-> rec \o List([x \in 1..(Len(hs) - j + 1) |-> hs[j + x - 1][1]])]

\* the inner loop of the backward pass over the headers hs[j..] of a request;
\* count.k and count.kv are the entries count[k] and count[k, v] of the Counter
RECURSIVE record_headers(_, _, _, _)
record_headers(hs, j, count, rec) ==
    IF j > Len(hs) THEN [count |-> count, rec |-> rec]
    ELSE LET k  == hs[j][1]
             v  == hs[j][2]
             c2 == [k  |-> count_add(count.k, k, 1),
                    kv |-> count_add(count.kv, <<k, v>>, 1)]
             \* count[k, v] > 1 and count[k, v] / count[k] > 0.5
             promoted == c2.kv[<<k, v>>] > 1 /\ 2 * c2.kv[<<k, v>>] > c2.k[k]
         IN  record_headers(hs, j + 1, c2, IF promoted THEN Append(rec, k) ELSE rec)

\* the backward pass, from request i (1-based) down to the first
RECURSIVE backward_pass(_, _, _, _)
backward_pass(reqs, i, count, record) ==
    IF i = 0 THEN [count |-> count, record |-> record]
    ELSE LET r == record_headers(reqs[i].headers, 1, count, <<>>)
         IN  backward_pass(reqs, i - 1, r.count, [record EXCEPT ![i] = r.rec])

\* the forward pass, from request i (1-based) on; count is count[k] alone
RECURSIVE forward_pass(_, _, _, _, _, _)
forward_pass(reqs, record, i, count, headers, ans) ==
    IF i > Len(reqs) THEN ans
    ELSE LET r    == reqs[i]
             rec  == Range(record[i])
             h1   == [k \in DOMAIN headers \cup rec |->
                        IF k \in rec THEN headers_dict(r)[k] ELSE headers[k]]
             left == Len(reqs) - (i - 1)
             \* count[k] / (n_requests - i) < 0.5
             h2   == [k \in DOMAIN h1 |->
                        IF k \in header_keys(r) THEN h1[k]
                        ELSE IF 2 * count_get(count, k) < left THEN None
                        ELSE h1[k]]
             c2   == [k \in DOMAIN count |->
                        IF k \in DOMAIN h1 /\ k \in header_keys(r)
                        THEN count[k] - 1 ELSE count[k]]
         IN  forward_pass(reqs, record, i + 1, c2, h2, Append(ans, h2))

\* infer_session_headers that leaves the last request out
infer_session_headers_but_last(reqs) ==
    LET most == SubSeq(reqs, 1, Len(reqs) - 1)
        back == backward_pass(most, Len(most),
                              [k |-> EmptyDict, kv |-> EmptyDict],
                              List([i \in 1..Len(most) |-> <<>>]))
    IN  forward_pass(most, back.record, 1, back.count.k, EmptyDict, <<>>)

infer_session_headers(reqs) ==
    LET back == backward_pass(reqs, Len(reqs),
                              [k |-> EmptyDict, kv |-> EmptyDict],
                              List([i \in 1..Len(reqs) |-> <<>>]))
    IN  forward_pass(reqs, back.record, 1, back.count.k, EmptyDict, <<>>)

-----------------------------------------------------------------------------
(* infer_session_headers on bounded request lists, one request of a loop   *)
(* at a time.  A dict is an object of the heap, known by its identity: the *)
(* running dict headers is one object, and ans lists the identities of the *)
(* objects appended to it.                                                 *)

\* longest request list
MaxSession == 4

\* the requests of the lists: only their headers matter here
SessionMenu ==
    { Request(<<>>, "TE"),
      Request(<< <<"X", "V">> >>, "TE"),
      Request(<< <<"X", "W">> >>, "TE"),
      Request(<< <<"Y", "tok">> >>, "TE"),
      Request(<< <<"X", "V">>, <<"Y", "tok">> >>, "TE") }

SessionInputs == UNION {[1..m -> SessionMenu] : m \in 0..MaxSession}

\* a new object with the content d: the heap with it, and its identity
heap_new(h, d) ==
    LET id == Cardinality(DOMAIN h) + 1
    IN  [heap |-> Put(h, id, d), id |-> id]

\* no copy: the same object again
dict_same_object(h, id) == [heap |-> h, id |-> id]

\* dict.copy(): a new object with the content of the object id
dict_copy(h, id) == heap_new(h, h[id])

\* one round of the forward loop on the dict headers: the keys of rec are
\* set, then every key of headers is counted down or tested for the tombstone
forward_step(r, rec, left, count, headers) ==
    LET h1 == [k \in DOMAIN headers \cup Range(rec) |->
                IF k \in Range(rec) THEN headers_dict(r)[k] ELSE headers[k]]
        \* count[k] / (n_requests - i) < 0.5
        h2 == [k \in DOMAIN h1 |->
                IF k \in header_keys(r) THEN h1[k]
                ELSE IF 2 * count_get(count, k) < left THEN None
                ELSE h1[k]]
        c2 == [k \in DOMAIN count |->
                IF k \in DOMAIN h1 /\ k \in header_keys(r)
                THEN count[k] - 1 ELSE count[k]]
    IN  [headers |-> Dict(h2), count |-> Dict(c2)]

InitSession ==
    /\ call_fn = "infer_session_headers"
    /\ call_args = <<>>
    /\ call_ret = Pending
    /\ requests \in SessionInputs
    /\ ish_pc = "start"
    /\ ish_i = 0
    /\ ish_count = <<>>
    /\ ish_record = <<>>
    /\ heap = <<>>
    /\ ish_headers = 0
    /\ ish_ans = <<>>
    /\ pc = "idle"
    /\ run = 0
    /\ all_session_headers = <<>>
    /\ current_session_headers = <<>>
    /\ main_header_to_variable = <<>>
    /\ render_id = 0
    /\ rendered = <<>>
    /\ first_run = <<>>
    /\ base_headers = <<>>
    /\ variables_to_bind = <<>>
    /\ header_to_variable = <<>>
    /\ variable_names = {}
    /\ responses_db = <<>>
    /\ tried_headers = {}
    /\ request_id = 0
    /\ header_idx = 0
    /\ scan_idx = 0
    /\ last_match = <<>>
    /\ attempts = <<>>
    /\ cache = <<>>
    /\ SAIdle

\* lines 96-99: the locals, and the backward loop at its first request
StartSession ==
    /\ ish_pc = "start"
    /\ ish_count' = [k |-> EmptyDict, kv |-> EmptyDict]
    /\ ish_record' = List([i \in 1..Len(requests) |-> <<>>])
    /\ ish_i' = Len(requests) - 1
    /\ ish_pc' = "backward"
    /\ UNCHANGED <<call_vars, main_vars, infer_vars, cache, sa_vars, heap,
                   ish_headers, ish_ans>>

\* lines 99-104: one request of the backward loop
RecordRequest ==
    /\ ish_pc = "backward"
    /\ ish_i >= 0
    /\ LET r == record_headers(At(requests, ish_i).headers, 1, ish_count, <<>>)
       IN  /\ ish_count' = r.count
           /\ ish_record' = [ish_record EXCEPT ![ish_i + 1] = r.rec]
    /\ ish_i' = ish_i - 1
    /\ UNCHANGED <<call_vars, main_vars, infer_vars, cache, sa_vars, ish_pc,
                   heap, ish_headers, ish_ans>>

\* lines 106-108: ans, the dict headers, and the forward loop at request 0
StartForward ==
    /\ ish_pc = "backward"
    /\ ish_i < 0
    /\ LET new == heap_new(heap, EmptyDict)
       IN  /\ heap' = new.heap
           /\ ish_headers' = new.id
    /\ ish_ans' = <<>>
    /\ ish_i' = 0
    /\ ish_pc' = "forward"
    /\ UNCHANGED <<call_vars, main_vars, infer_vars, cache, sa_vars, ish_count,
                   ish_record>>

\* lines 108-116: one request of the forward loop, and the append of the copy
ForwardRequest ==
    /\ ish_pc = "forward"
    /\ ish_i < Len(requests)
    /\ LET step == forward_step(At(requests, ish_i), At(ish_record, ish_i),
                                Len(requests) - ish_i, ish_count.k,
                                heap[ish_headers])
           copy == dict_copy([heap EXCEPT ![ish_headers] = step.headers],
                             ish_headers)
       IN  /\ ish_count' = [ish_count EXCEPT !.k = step.count]
           /\ heap' = copy.heap
           /\ ish_ans' = Append(ish_ans, copy.id)
    /\ ish_i' = ish_i + 1
    /\ UNCHANGED <<call_vars, main_vars, infer_vars, cache, sa_vars, ish_pc,
                   ish_record, ish_headers>>

\* line 117: return ans
ReturnSession ==
    /\ ish_pc = "forward"
    /\ ish_i >= Len(requests)
    /\ call_ret' = Return(List([j \in 1..Len(ish_ans) |-> heap[ish_ans[j]]]))
    /\ ish_pc' = "done"
    /\ UNCHANGED <<call_fn, call_args, main_vars, infer_vars, cache, sa_vars,
                   ish_i, ish_count, ish_record, heap, ish_headers, ish_ans>>

NextSession ==
    \/ StartSession
    \/ RecordRequest
    \/ StartForward
    \/ ForwardRequest
    \/ ReturnSession

SpecSession == InitSession /\ [][NextSession]_vars

\* the snapshot of request i as it is now: the object ans[i] points to
Snapshot(i) == heap[At(ish_ans, i)]

\* the number of requests of index >= i that have the header k
Carrying(k, i) ==
    Cardinality({j \in i..(Len(requests) - 1) : k \in header_keys(At(requests, j))})

\* the share of the requests i..n-1 that have the header k is below 0.5
ShareBelowHalf(k, i) == 2 * Carrying(k, i) < Len(requests) - i

\* C13: in the forward pass a header k of the session state that request i
\* does not have is set to the tombstone in snapshot i exactly when the share
\* of the requests i..n-1 that have k is below 0.5 (else it keeps what the
\* snapshot before had), and the count[k] the test uses is the number of
\* requests of index >= i that have k.
C13_TombstoneOnRemainingShare ==
    /\ (ish_pc = "forward" /\ ish_i < Len(requests)) =>
            \A k \in DOMAIN heap[ish_headers] \ header_keys(At(requests, ish_i)) :
                count_get(ish_count.k, k) = Carrying(k, ish_i)
    /\ ish_pc \in {"forward", "done"} =>
            \A i \in 1..(Len(ish_ans) - 1) :
                \A k \in DOMAIN Snapshot(i) \ header_keys(At(requests, i)) :
                    Snapshot(i)[k] =
                        IF ShareBelowHalf(k, i) THEN None ELSE Snapshot(i - 1)[k]

\* the requests before the last all have the header k with the value v1, and
\* the last has it with another value
AllButLastAgree(k, v1) ==
    /\ Len(requests) >= 3
    /\ \A j \in 1..Len(requests) : k \in header_keys(requests[j])
    /\ \A j \in 1..(Len(requests) - 1) : headers_dict(requests[j])[k] = v1
    /\ headers_dict(requests[Len(requests)])[k] # v1

\* C14: when the requests 0..m-1 (m >= 2) all have the header k with the value
\* v1 and the last request m has k with another value, every snapshot that
\* infer_session_headers returns, the last included, maps k to v1.
C14_LastValueNotPromoted ==
    (ish_pc = "done" /\ call_ret.ok) =>
        \A k \in {"X", "Y"} : \A v1 \in {"V", "W", "tok"} :
            AllButLastAgree(k, v1) =>
                /\ Len(call_ret.val) = Len(requests)
                /\ \A j \in 1..Len(requests) :
                        /\ k \in DOMAIN call_ret.val[j]
                        /\ call_ret.val[j][k] = v1

\* C14 witness: infer_session_headers has returned on three requests with
\* X: V and a fourth with X: W
C14_Witness ==
    /\ ish_pc = "done"
    /\ call_ret.ok
    /\ Len(requests) = 4
    /\ AllButLastAgree("X", "V")
    /\ call_ret.val[4]["X"] = "V"

\* C20: a snapshot appended to ans is a copy of its own: no later step of the
\* forward pass, promotion or tombstone, changes a snapshot already in ans,
\* and the list returned holds the snapshots as they were appended.
C20_SnapshotsKeepTheirContent ==
    [][/\ \A i \in 0..(Len(ish_ans) - 1) :
            /\ i < Len(ish_ans')
            /\ heap'[At(ish_ans', i)] = Snapshot(i)
       /\ (ish_pc' = "done" /\ ish_pc # "done") =>
            \A i \in 0..(Len(ish_ans) - 1) : At(call_ret'.val, i) = Snapshot(i)]_vars

\* C20 witness: infer_session_headers has returned, and the running dict was
\* changed after the first snapshot: a later snapshot has a tombstone the
\* first one has not
C20_Witness ==
    /\ ish_pc = "done"
    /\ \E i \in 1..(Len(ish_ans) - 1) : \E k \in DOMAIN Snapshot(0) :
            /\ k \in DOMAIN Snapshot(i)
            /\ Snapshot(i)[k] = None
            /\ Snapshot(0)[k] # None

-----------------------------------------------------------------------------
(* utils.py: dict_change; request.py: the header part of Request.dump      *)

\* the elements of b that are not the same in a, and None for those gone
dict_change(a, b) ==
    LET changed == {k \in DOMAIN b : k \notin DOMAIN a \/ a[k] # b[k]}
        removed == {k \in DOMAIN a : a[k] # None /\ k \notin DOMAIN b}
    IN  [k \in changed \cup removed |-> IF k \in changed THEN b[k] ELSE None]

\* a value v, written as Variable(header_to_variable[v]) when it has one
with_variables(d, h2v) ==
    [k \in DOMAIN d |->
        IF d[k] \in DOMAIN h2v THEN <<"var", h2v[d[k]]>> ELSE <<"lit", d[k]>>]

\* the headers Request.dump writes
dump_headers(r, session_headers, h2v) ==
    with_variables(dict_change(session_headers, headers_dict(r)), h2v)

-----------------------------------------------------------------------------
(* main, infer_headers_origin and the output loop, step by step.           *)

NoMatch == [header |-> "", text |-> "", response_id |-> 0, result |-> FALSE,
            called |-> FALSE]

\* the locals of infer_headers_origin before its loop
InferLocals(n, base) ==
    /\ base_headers' = base
    /\ variables_to_bind' = List([i \in 1..n |-> <<>>])
    /\ header_to_variable' = EmptyDict
    /\ variable_names' = {}
    /\ responses_db' = <<>>
    /\ tried_headers' = {}
    /\ request_id' = 0
    /\ header_idx' = 0
    /\ scan_idx' = 0
    /\ last_match' = NoMatch
    /\ attempts' = <<>>

Init ==
    /\ call_fn = "none"
    /\ call_args = <<>>
    /\ call_ret = Pending
    /\ requests \in Inputs
    /\ pc = "start"
    /\ run = 1
    /\ all_session_headers = <<>>
    /\ current_session_headers = EmptyDict
    /\ main_header_to_variable = EmptyDict
    /\ render_id = 0
    /\ rendered = <<>>
    /\ first_run = <<>>
    /\ base_headers = EmptyDict
    /\ variables_to_bind = <<>>
    /\ header_to_variable = EmptyDict
    /\ variable_names = {}
    /\ responses_db = <<>>
    /\ tried_headers = {}
    /\ request_id = 0
    /\ header_idx = 0
    /\ scan_idx = 0
    /\ last_match = NoMatch
    /\ attempts = <<>>
    /\ cache = <<>>
    /\ SAIdle
    /\ SessionIdle

\* main, lines 153-163: the session headers, then infer_headers_origin up to
\* its loop, or no inference when there is no snapshot
InferSessionHeaders ==
    /\ pc = "start"
    /\ LET snapshots == infer_session_headers(requests)
       IN  /\ all_session_headers' = snapshots
           /\ IF snapshots = <<>>
              THEN /\ InferLocals(Len(requests), EmptyDict)
                   /\ pc' = "output"
              ELSE /\ InferLocals(Len(requests), snapshots[1])
                   /\ pc' = "headers"
    /\ UNCHANGED <<sa_vars, ish_vars, call_vars, requests, run, current_session_headers,
                   main_header_to_variable, render_id, rendered, first_run, cache>>

\* the header the loop over request.headers.items() is at
CurrentRequest == requests[request_id + 1]
CurrentHeader == CurrentRequest.headers[header_idx + 1]

AtHeader ==
    /\ pc = "headers"
    /\ header_idx < Len(CurrentRequest.headers)

\* the three tests, and a fourth that skips the values too short to match
Skipped_or_short(header_key, value) ==
    \/ header_key \in DOMAIN base_headers
    \/ value \in DOMAIN header_to_variable
    \/ value \in tried_headers
    \/ StrLen(value) < SIZE_THRESHOLD

\* lines 77-82: the three tests that skip a header
Skipped(header_key, value) ==
    \/ header_key \in DOMAIN base_headers
    \/ value \in DOMAIN header_to_variable
    \/ value \in tried_headers

\* lines 76-82: a header that is skipped
SkipHeader ==
    /\ AtHeader
    /\ Skipped(CurrentHeader[1], CurrentHeader[2])
    /\ header_idx' = header_idx + 1
    /\ UNCHANGED <<sa_vars, ish_vars, call_vars, main_vars, base_headers, variables_to_bind,
                   header_to_variable, variable_names, responses_db,
                   tried_headers, request_id, scan_idx, last_match, attempts,
                   cache>>

\* lines 76-84: a header that is searched for in responses_db
TryHeader ==
    /\ AtHeader
    /\ ~Skipped(CurrentHeader[1], CurrentHeader[2])
    /\ tried_headers' = tried_headers \cup {CurrentHeader[2]}
    /\ attempts' = Append(attempts, CurrentHeader)
    /\ scan_idx' = 0
    /\ pc' = "scan"
    /\ UNCHANGED <<sa_vars, ish_vars, call_vars, requests, run, all_session_headers,
                   current_session_headers, main_header_to_variable, render_id,
                   rendered, first_run, base_headers, variables_to_bind,
                   header_to_variable, variable_names, responses_db, request_id,
                   header_idx, last_match, cache>>

\* lines 84-88: one entry of responses_db
MatchResponse ==
    /\ pc = "scan"
    /\ scan_idx < Len(responses_db)
    /\ LET header_key  == CurrentHeader[1]
           value       == CurrentHeader[2]
           response_id == responses_db[scan_idx + 1][1]
           text        == responses_db[scan_idx + 1][2]
           m           == match(cache, value, text)
       IN  /\ cache' = m.cache
           /\ IF ~m.ret.ok
              THEN /\ pc' = "raised"
                   /\ UNCHANGED <<variables_to_bind, header_to_variable,
                                  variable_names, last_match, scan_idx>>
              ELSE /\ pc' = pc
                   /\ scan_idx' = scan_idx + 1
                   /\ last_match' = [header |-> value, text |-> text,
                                     response_id |-> response_id,
                                     result |-> m.ret.val, called |-> TRUE]
                   /\ IF m.ret.val
                      THEN LET name == new_variable_name(variable_names, header_key)
                           IN  /\ variable_names' = variable_names \cup {name}
                               /\ variables_to_bind' =
                                    [variables_to_bind EXCEPT ![response_id + 1] =
                                        Append(@, <<name, value>>)]
                               /\ header_to_variable' =
                                    Put(header_to_variable, value, name)
                      ELSE UNCHANGED <<variables_to_bind, header_to_variable,
                                       variable_names>>
    /\ UNCHANGED <<sa_vars, ish_vars, call_vars, requests, run, all_session_headers,
                   current_session_headers, main_header_to_variable, render_id,
                   rendered, first_run, base_headers, responses_db,
                   tried_headers, request_id, header_idx, attempts>>

\* line 84: the loop over responses_db is over
EndScan ==
    /\ pc = "scan"
    /\ scan_idx >= Len(responses_db)
    /\ header_idx' = header_idx + 1
    /\ pc' = "headers"
    /\ UNCHANGED <<sa_vars, ish_vars, call_vars, requests, run, all_session_headers,
                   current_session_headers, main_header_to_variable, render_id,
                   rendered, first_run, base_headers, variables_to_bind,
                   header_to_variable, variable_names, responses_db,
                   tried_headers, request_id, scan_idx, last_match, attempts,
                   cache>>

\* the append of a deque without maxlen
deque_append_unbounded(db, x) == Append(db, x)

\* deque_append with the response listed under the index of the next request
deque_append_next_id(db, x) ==
    Append(IF Len(db) >= RESPONSE_LOOKUP THEN Tail(db) ELSE db, <<x[1] + 1, x[2]>>)

\* deque([], RESPONSE_LOOKUP).append
deque_append(db, x) ==
    Append(IF Len(db) >= RESPONSE_LOOKUP THEN Tail(db) ELSE db, x)

\* the test of line 89
Searchable(text) == SIZE_THRESHOLD <= StrLen(text) /\ StrLen(text) <= MAX_SIZE

\* lines 89-92: the headers of the request are done; its response joins
\* responses_db, and after the last request infer_headers_origin returns
EndRequest ==
    /\ pc = "headers"
    /\ header_idx >= Len(CurrentRequest.headers)
    /\ responses_db' =
            IF Searchable(CurrentRequest.responseText)
            THEN deque_append(responses_db, <<request_id, CurrentRequest.responseText>>)
            ELSE responses_db
    /\ request_id' = request_id + 1
    /\ header_idx' = 0
    /\ pc' = IF request_id + 1 >= Len(requests) THEN "output" ELSE "headers"
    /\ UNCHANGED <<sa_vars, ish_vars, call_vars, requests, run, all_session_headers,
                   current_session_headers, main_header_to_variable, render_id,
                   rendered, first_run, base_headers, variables_to_bind,
                   header_to_variable, variable_names, tried_headers, scan_idx,
                   last_match, attempts, cache>>

\* header_to_variable[value] = name for the (name, value) of defs[j..]
RECURSIVE define_variables(_, _, _)
define_variables(h2v, defs, j) ==
    IF j > Len(defs) THEN h2v
    ELSE define_variables(Put(h2v, defs[j][2], defs[j][1]), defs, j + 1)

\* lines 196-287: one round of the output loop: the session header update,
\* the request, then the variables its response defines
OutputRequest ==
    /\ pc = "output"
    /\ render_id < Len(requests)
    /\ LET request         == requests[render_id + 1]
           session_headers == all_session_headers[render_id + 1]
           definitions     == variables_to_bind[render_id + 1]
           header_changes  == with_variables(
                                dict_change(current_session_headers, session_headers),
                                main_header_to_variable)
       IN  /\ current_session_headers' = session_headers
           /\ rendered' = Append(rendered,
                    [update  |-> header_changes,
                     headers |-> dump_headers(request, session_headers,
                                              main_header_to_variable),
                     defines |-> definitions])
           /\ main_header_to_variable' =
                    define_variables(main_header_to_variable, definitions, 1)
    /\ render_id' = render_id + 1
    /\ UNCHANGED <<sa_vars, ish_vars, call_vars, requests, pc, run, all_session_headers, first_run,
                   infer_vars, cache>>

\* lines 289-291: the output loop is over
Finish ==
    /\ pc = "output"
    /\ render_id >= Len(requests)
    /\ pc' = "done"
    /\ UNCHANGED <<sa_vars, ish_vars, call_vars, requests, run, all_session_headers,
                   current_session_headers, main_header_to_variable, render_id,
                   rendered, first_run, infer_vars, cache>>

\* main is run again on the same requests, in the same process: the cache of
\* _match_wrapped is kept, everything else starts afresh
RunAgain ==
    /\ pc = "done"
    /\ run = 1
    /\ run' = 2
    /\ first_run' = [snapshots |-> all_session_headers,
                     bindings  |-> variables_to_bind,
                     rendered  |-> rendered]
    /\ pc' = "start"
    /\ all_session_headers' = <<>>
    /\ current_session_headers' = EmptyDict
    /\ main_header_to_variable' = EmptyDict
    /\ render_id' = 0
    /\ rendered' = <<>>
    /\ InferLocals(0, EmptyDict)
    /\ UNCHANGED <<sa_vars, ish_vars, call_vars, requests, cache>>

Next ==
    \/ InferSessionHeaders
    \/ SkipHeader
    \/ TryHeader
    \/ MatchResponse
    \/ EndScan
    \/ EndRequest
    \/ OutputRequest
    \/ Finish
    \/ RunAgain

Spec == Init /\ [][Next]_vars

-----------------------------------------------------------------------------
(* Properties of infer_headers_origin and of the output loop.              *)

\* the bindings of variables_to_bind, each with the response it is listed under
Bindings ==
    UNION {{[response |-> r - 1, slot |-> j,
             name |-> variables_to_bind[r][j][1],
             value |-> variables_to_bind[r][j][2]] :
                j \in 1..Len(variables_to_bind[r])} :
           r \in 1..Len(variables_to_bind)}

BindingsOf(value) == {x \in Bindings : x.value = value}

\* match(header, text) from an empty cache
MatchCold(header, text) == match(<<>>, header, text).ret.val

\* the entries of responses_db that the value matches
MatchingEntries(value) ==
    {e \in Range(responses_db) : MatchCold(value, e[2])}

\* the loop over responses_db has run to its end for the current header
ScanDone == pc = "scan" /\ scan_idx = Len(responses_db)

\* the requests before request i whose response passes the test of line 89,
\* and the RESPONSE_LOOKUP most recent of them
Eligible(i) == {j \in 0..(i - 1) : Searchable(requests[j + 1].responseText)}

Recent(i) ==
    {j \in Eligible(i) : Cardinality({l \in Eligible(i) : l > j}) < RESPONSE_LOOKUP}

\* C1: every header value has at most one (name, value) binding over all the
\* lists of variables_to_bind, also when it matches several responses of the
\* window.
C1_OneBindingPerValue ==
    \A x, y \in Bindings : x.value = y.value => x = y

\* C2: responses_db never holds more than RESPONSE_LOOKUP entries, which are
\* the most recent eligible responses of the requests before the current one,
\* and the header of request i under search is bound only to responses among
\* the RESPONSE_LOOKUP most recent eligible ones of the requests before i.
C2_WindowBound ==
    /\ Len(responses_db) <= RESPONSE_LOOKUP
    /\ {e[1] : e \in Range(responses_db)} = Recent(request_id)
    /\ pc = "scan" =>
            \A x \in BindingsOf(CurrentHeader[2]) : x.response \in Recent(request_id)

\* C2 witness: the search of a header is over, more than RESPONSE_LOOKUP
\* eligible responses precede its request, one that is no longer among the
\* most recent matches the value, and the value is not bound
C2_Witness ==
    /\ ScanDone
    /\ Cardinality(Eligible(request_id)) > RESPONSE_LOOKUP
    /\ \E j \in Eligible(request_id) \ Recent(request_id) :
            MatchCold(CurrentHeader[2], requests[j + 1].responseText)
    /\ CurrentHeader[2] \notin DOMAIN header_to_variable

\* C3: new_variable_name never returns a name already in variable_names: the
\* names of all bindings of a run are pairwise distinct, whatever the base
\* names are.
C3_NamesDistinct ==
    /\ \A x, y \in Bindings : x.name = y.name => x = y
    /\ Cardinality(variable_names) = Cardinality(Bindings)
    /\ variable_names = {x.name : x \in Bindings}

\* C3 witness: the base name X_1 got the name X_1_1 while X_1 is the name
\* minted for the base name X
C3_Witness ==
    /\ \E x \in Bindings : x.name = "X_1" /\ x.value = "V"
    /\ \E x \in Bindings : x.name = "X_1_1" /\ x.value = "U"

\* the value of the current header was searched for before, under any name
ValueAttempted(value) == \E j \in 1..Len(attempts) : attempts[j][2] = value

\* when the search of a header is over, its value is bound exactly when an
\* entry of responses_db matches it
BoundWhenMatched ==
    ScanDone =>
        ((CurrentHeader[2] \in DOMAIN header_to_variable)
            <=> (MatchingEntries(CurrentHeader[2]) # {}))

\* C4, as claimed: a header is skipped only when its name is a base header, or
\* its value is bound, or the same (name, value) pair was searched for earlier
\* in the run; every other header is searched for and bound on a match.
C4_SkippedOnlyForSamePair ==
    /\ (AtHeader /\ Skipped(CurrentHeader[1], CurrentHeader[2])) =>
            \/ CurrentHeader[1] \in DOMAIN base_headers
            \/ CurrentHeader[2] \in DOMAIN header_to_variable
            \/ CurrentHeader \in Range(attempts)
    /\ BoundWhenMatched

\* C4, amended: a header is skipped only when its name is a base header, or
\* its value is bound, or its value was searched for earlier in the run under
\* any header name; every other header is searched for and bound on a match.
C4_SkippedOnlyForSameValue ==
    /\ (AtHeader /\ Skipped(CurrentHeader[1], CurrentHeader[2])) =>
            \/ CurrentHeader[1] \in DOMAIN base_headers
            \/ CurrentHeader[2] \in DOMAIN header_to_variable
            \/ ValueAttempted(CurrentHeader[2])
    /\ BoundWhenMatched

\* C4 witness: a header is skipped whose name is no base header, whose value
\* is not bound and was searched for under another name only, while an entry
\* of responses_db matches it
C4_Witness ==
    /\ AtHeader
    /\ Skipped(CurrentHeader[1], CurrentHeader[2])
    /\ CurrentHeader[1] \notin DOMAIN base_headers
    /\ CurrentHeader[2] \notin DOMAIN header_to_variable
    /\ CurrentHeader \notin Range(attempts)
    /\ MatchingEntries(CurrentHeader[2]) # {}

\* the name of the binding of a value under the lowest response index
FirstBindingName(value) ==
    (CHOOSE x \in BindingsOf(value) :
        \A y \in BindingsOf(value) :
            x.response < y.response \/ (x.response = y.response /\ x.slot <= y.slot)).name

\* C5: a value that matches several entries of responses_db gets one binding,
\* under the matching response of lowest index, and the headers with that
\* value are written with the name of that binding.
C5_BoundToLowestResponse ==
    /\ (ScanDone /\ Cardinality(MatchingEntries(CurrentHeader[2])) > 1) =>
            \E x \in Bindings :
                /\ BindingsOf(CurrentHeader[2]) = {x}
                /\ \A e \in MatchingEntries(CurrentHeader[2]) : x.response <= e[1]
    /\ \A i \in 1..Len(rendered) :
            \A k \in header_keys(requests[i]) \cap DOMAIN rendered[i].headers :
                rendered[i].headers[k][1] = "var" =>
                    rendered[i].headers[k][2] =
                        FirstBindingName(headers_dict(requests[i])[k])

\* C6: the second run on the same requests ends with the snapshots and the
\* bindings of the first, and every call of match returns what it returns from
\* an empty cache, whatever the cache holds.
C6_SameOnSecondRun ==
    /\ (run = 2 /\ pc = "done") =>
            /\ first_run.snapshots = all_session_headers
            /\ first_run.bindings = variables_to_bind
    /\ last_match.called =>
            last_match.result = MatchCold(last_match.header, last_match.text)

\* C6 witness: the second run is over on the requests that fill the cache; the
\* cache is full, an entry of the first run was evicted, and the run bound
\* a variable
C6_Witness ==
    /\ run = 2 /\ pc = "done"
    /\ requests = StressInput
    /\ Len(cache) = LRU_MAXSIZE
    /\ cache_index(cache, <<"K1", "E2">>) = 0
    /\ Bindings # {}
    /\ first_run.bindings = variables_to_bind

\* main has the result of infer_session_headers
HasSnapshots == pc # "start"

\* C15: infer_session_headers returns one snapshot per request, in the order
\* of the requests (a snapshot holds for a header the tombstone or the value
\* of a request up to its own), and the empty list for no request; with no
\* snapshot main runs no inference of header origins and has no binding.
C15_OneSnapshotPerRequest ==
    HasSnapshots =>
        /\ Len(all_session_headers) = Len(requests)
        /\ \A i \in 1..Len(all_session_headers) :
                \A k \in DOMAIN all_session_headers[i] :
                    \/ all_session_headers[i][k] = None
                    \/ \E j \in 1..i :
                            /\ k \in header_keys(requests[j])
                            /\ headers_dict(requests[j])[k] = all_session_headers[i][k]
        /\ requests = <<>> => all_session_headers = <<>>
        /\ all_session_headers = <<>> =>
                /\ pc \in {"output", "done"}
                /\ variables_to_bind = <<>>
                /\ Bindings = {}
                /\ attempts = <<>>
                /\ tried_headers = {}
                /\ ~last_match.called

\* C15 witness: main is over on the empty request list, with nothing written
C15_Witness ==
    /\ pc = "done"
    /\ requests = <<>>
    /\ all_session_headers = <<>>
    /\ rendered = <<>>

\* a header or a session header written with a variable
WrittenWithVariable(d) == {k \in DOMAIN d : d[k][1] = "var"}

\* the name is defined by the output of a request before request i (1-based)
DefinedBefore(name, i) ==
    \E j \in 1..(i - 1) : \E d \in Range(rendered[j].defines) : d[1] = name

\* C18: a binding made for a header of request i is listed under a response
\* r < i, responses_db holding only responses of requests whose headers are
\* done; and the output defines a variable after a request that comes before
\* every request written with it.
C18_BoundToEarlierResponse ==
    /\ \A e \in Range(responses_db) : e[1] < request_id
    /\ pc \in {"headers", "scan"} => \A x \in Bindings : x.response < request_id
    /\ pc = "scan" =>
            \A x \in BindingsOf(CurrentHeader[2]) : x.response < request_id
    /\ \A i \in 1..Len(rendered) :
            /\ \A k \in WrittenWithVariable(rendered[i].headers) :
                    DefinedBefore(rendered[i].headers[k][2], i)
            /\ \A k \in WrittenWithVariable(rendered[i].update) :
                    DefinedBefore(rendered[i].update[k][2], i)

\* C18 witness: the output is over, and a request was written with a variable
\* that the response of the request just before it defines
C18_Witness ==
    /\ pc = "done"
    /\ \E i \in 2..Len(rendered) : \E k \in WrittenWithVariable(rendered[i].headers) :
            \E d \in Range(rendered[i - 1].defines) : d[1] = rendered[i].headers[k][2]

====
